---- MODULE Spec2Model ----
(***************************************************************************)
(* Model of scripts/sketcher.py: the point-cloud store (PointCloud3D) and  *)
(* the interaction controller (PointCloudApp).                             *)
(*                                                                         *)
(* Numbers.  The program computes in binary floating point; the model      *)
(* computes in exact fixed point:                                          *)
(*   - lengths (x, y, z, sizes, layer heights) are integers counting       *)
(*     1/2600 m, so that 1.0 m = 2600, the default cloud (size 1.0 m,      *)
(*     14 x 14 grid) has the exact grid step 2600 / 13 = 200, and the      *)
(*     drag threshold 0.0005 m^2 is exactly 3380 square units;             *)
(*   - colour channels are integers counting 1/1000, so 0.9 = 900.         *)
(* Every input the model draws is chosen so that the program's float       *)
(* result is the exact one (for instance 0.9 * 255 is exactly 229.5).      *)
(***************************************************************************)
EXTENDS Integers, Sequences, FiniteSets, TLC

VARIABLES
    points,               \* PointCloud3D.points: sequence of <<x, y, z>>
    colors,               \* PointCloud3D.colors: sequence of <<r, g, b>>
    undo_stack,           \* PointCloud3D.undo_stack: sequence of <<start, count>>
    export_layer_height,  \* PointCloud3D.export_layer_height
    export_layer_count,   \* PointCloud3D.export_layer_count
    points_per_cloud,     \* PointCloudApp.points_per_cloud
    cloud_size,           \* PointCloudApp.cloud_size
    map_width,            \* PointCloudApp.map_width
    map_height,           \* PointCloudApp.map_height
    map_dpi,              \* PointCloudApp.map_dpi
    redraw_scheduled,     \* PointCloudApp.redraw_scheduled
    timers,               \* number of root.after callbacks not yet fired
    scatter_obj,          \* PointCloudApp.scatter_obj: None or "scatter"
    mouse_down,           \* PointCloudApp.mouse_down
    last_pos,             \* PointCloudApp.last_pos: << >> for None, or <<x, y>>
    files,                \* paths opened for writing so far
    last,                 \* the operation just performed and what it returned / emitted
    undoBase,             \* history: the store before the add_square or clear just performed
                          \* (kept over an undo that follows it immediately)
    trail,                \* history: the buffers after each append of a run started on a fresh store
    win                   \* history: the appends made since the outstanding callback was scheduled

storeVars == <<points, colors, undo_stack>>
exportVars == <<export_layer_height, export_layer_count>>
settingVars == <<points_per_cloud, cloud_size, map_width, map_height, map_dpi>>
mouseVars == <<mouse_down, last_pos>>
timerVars == <<redraw_scheduled, timers>>
vars == <<points, colors, undo_stack, export_layer_height, export_layer_count,
          points_per_cloud, cloud_size, map_width, map_height, map_dpi,
          redraw_scheduled, timers, scatter_obj, mouse_down, last_pos,
          files, last, undoBase, trail, win>>

----------------------------------------------------------------------------
(* Units and program constants *)

None == "None"

\* add_square's default colour (0.2, 0.6, 0.9), in thousandths
DefaultColor == <<200, 600, 900>>

\* PointCloud3D.__init__: export_layer_height = 0.25 m
InitLayerHeight == 650

\* PointCloud3D.__init__: export_layer_count = 10
InitLayerCount == 10

\* PointCloudApp.__init__: points_per_cloud = 200
InitPointsPerCloud == 200

\* PointCloudApp.__init__: cloud_size = 1.0 m
InitCloudSize == 2600

\* PointCloudApp.__init__: map_width = 20.0 m
InitMapWidth == 52000

\* PointCloudApp.__init__: map_height = 15.0 m
InitMapHeight == 39000

\* PointCloudApp.__init__: map_dpi = 100
InitMapDpi == 100

----------------------------------------------------------------------------
(* Bounds of the model and the inputs it draws *)

\* add_square and clear are not called once undo_stack holds this many batches
MaxStack == 3

\* the store-level calls draw target point counts from -1 .. MaxTarget
MaxTarget == 4

\* the largest layer count typed into the settings form
MaxLayers == 2

Targets == (0 - 1) .. MaxTarget

\* (x, y, size, color) of the store-level add_square calls
CloudArgs ==
    { <<13000, 13000, 2600, DefaultColor>>,
      <<7800, 18200, 5200, <<0, 500, 1000>> >> }

\* (layer height, layer count) typed into the settings form: -0.25 m and 0
\* layers, 0.5 m and MaxLayers layers
ExportInputs == { <<0 - 650, 0>>, <<1300, MaxLayers>> }

Paths == {"out"}

\* the controller appends no cloud once undo_stack holds this many batches
MaxClouds == 2

\* the controller appends no cloud that would take the buffer past this many points
MaxPoints == 200

\* the controller appends no cloud once this many were appended since the
\* outstanding callback was scheduled
MaxWindow == 2

\* render queries: small display caps up to MaxCap on stores of up to MaxTotal
\* points, and the program's cap on stores just above it
MaxCap == 4
MaxTotal == 9

\* where the pointer is pressed; the two places it is dragged to lie at squared
\* distance 3380 (exactly the threshold) and 5408 from there, and 676 apart
PressXY == { <<13000, 13000>> }

MoveXY == { <<13026, 13052>>, <<13052, 13052>> }

\* a pointer outside the plot area (event.xdata and event.ydata are None) is
\* the empty tuple, and so is last_pos = None
NoXY == << >>

\* mouse buttons: 1 is the primary button
Buttons == {1, 3}

\* point counts typed into the settings form
PointInputs == {0}

\* answers of the file dialog: a path, or "" when cancelled
PathInputs == Paths \cup {""}

----------------------------------------------------------------------------
(* Arithmetic helpers *)

Max2(a, b) == IF a >= b THEN a ELSE b

Min2(a, b) == IF a <= b THEN a ELSE b

Abs(a) == IF a < 0 THEN 0 - a ELSE a

\* int(np.sqrt(p)) for p >= 1
IntSqrt(p) == CHOOSE n \in 0 .. p : n * n <= p /\ (n + 1) * (n + 1) > p

\* np.linspace(a, b, n)[i - 1]: sample i of n from a to b, the single sample a when n = 1
linspace(a, b, n, i) == IF n = 1 THEN a ELSE a + ((i - 1) * (b - a)) \div (n - 1)

----------------------------------------------------------------------------
(* PointCloud3D: the pure parts of each method *)

\* IsEmpty without the test
IsEmptyNever(buf) == FALSE

\* points.size == 0 (clear, build_3d_layers, PointCloudApp.save)
IsEmpty(buf) == Len(buf) * 3 = 0

\* SquareSide with the square root rounded up instead of down
SquareSideCeil(pts) ==
    LET p == Max2(1, pts)
        n == IntSqrt(p)
    IN  IF n * n < p THEN n + 1 ELSE n

\* add_square: pts = max(1, int(pts)); n = int(np.sqrt(pts)); if n < 1: n = 1
SquareSide(pts) ==
    LET p == Max2(1, pts)
        n == IntSqrt(p)
    IN  IF n < 1 THEN 1 ELSE n

\* add_square: the n * n grid points, row-major over meshgrid(xs, ys), at z = 0
SquarePoints(x, y, size, pts) ==
    LET n     == SquareSide(pts)
        xs(i) == linspace(0 - (size \div 2), size \div 2, n, i) + x
        ys(i) == linspace(0 - (size \div 2), size \div 2, n, i) + y
    IN  [k \in 1 .. n * n |-> <<xs(((k - 1) % n) + 1), ys(((k - 1) \div n) + 1), 0>>]

\* add_square: cols = np.tile(color, (len(xy), 1))
SquareColors(color, count) == [k \in 1 .. count |-> color]

\* add_square: the buffer after the append (replaced when empty, stacked otherwise)
AppendBuf(buf, new) == IF Len(buf) = 0 THEN new ELSE buf \o new

\* NewBatch taking the start after the points were appended
NewBatchAfter(buf, new) == <<Len(buf) + Len(new), Len(new)>>

\* add_square: the batch pushed on undo_stack
NewBatch(buf, new) == <<Len(buf), Len(new)>>

\* UndoPoints truncating one element late
UndoPointsLate(buf, start) ==
    IF start = 0 THEN << >> ELSE SubSeq(buf, 1, Min2(start + 1, Len(buf)))

\* undo: the points kept when the popped batch starts at start
UndoPoints(buf, start) == IF start = 0 THEN << >> ELSE SubSeq(buf, 1, Min2(start, Len(buf)))

\* UndoColors forgetting to truncate
UndoColorsKept(buf, start) == IF start = 0 THEN << >> ELSE buf

\* undo: the colors kept when the popped batch starts at start
UndoColors(buf, start) == IF start = 0 THEN << >> ELSE SubSeq(buf, 1, Min2(start, Len(buf)))

\* clear: the batch pushed on undo_stack
ClearBatch(buf) == <<0, Len(buf)>>

\* build_3d_layers: (colors * 255).astype(np.uint8) on one channel
ToUint8(c) == ((c * 255) \div 1000) % 256

\* build_3d_layers: layers = max(1, int(export_layer_count))
LayerCount(count) == Max2(1, count)

\* build_3d_layers: step = abs(float(export_layer_height))
LayerStep(height) == Abs(height)

\* LayerPoint counting the layers from 1
LayerPointFromOne(p, i, step) == <<p[1], p[2], p[3] + (i + 1) * step>>

\* build_3d_layers: layer = base_pts.copy(); layer[:,2] += i*step, on one point
LayerPoint(p, i, step) == <<p[1], p[2], p[3] + i * step>>

\* build_3d_layers: base_cols = (self.colors * 255).astype(np.uint8), on one colour
BaseCol(c) == <<ToUint8(c[1]), ToUint8(c[2]), ToUint8(c[3])>>

\* StoredAfterLayers without the copy: every layer[:,2] += i*step lands in the buffer
StoredAfterLayersAliased(base, layers, step) ==
    [k \in 1 .. Len(base) |->
        <<base[k][1], base[k][2], base[k][3] + step * ((layers * (layers - 1)) \div 2)>>]

\* build_3d_layers: the stored buffer after the layers were built from copies of it
StoredAfterLayers(base, layers, step) == base

\* build_3d_layers returning (None, None)
NoGeom == [none |-> TRUE, pts |-> << >>, cols |-> << >>]

\* build_3d_layers: (None, None) for an empty buffer, else the stacked layers and colours
build_3d_layers_result(pts, cols, count, height) ==
    IF IsEmpty(pts) THEN NoGeom
    ELSE LET layers == LayerCount(count)
             step   == LayerStep(height)
             m      == Len(pts)
         IN  [none |-> FALSE,
              pts  |-> [k \in 1 .. m * layers |->
                           LayerPoint(pts[((k - 1) % m) + 1], (k - 1) \div m, step)],
              cols |-> [k \in 1 .. Len(cols) * layers |->
                           BaseCol(cols[((k - 1) % Len(cols)) + 1])]]

----------------------------------------------------------------------------
(* History variables *)

NoBase == [by |-> None, points |-> << >>, colors |-> << >>, stack |-> << >>]

NoTrail == [valid |-> FALSE, snaps |-> << >>, undone |-> 0]

NoWin == [n |-> 0, sched |-> 0, base |-> 0, added |-> 0, pure |-> TRUE]

\* trail after an append that produced the buffers pts, cols
TrailAppend(pts, cols) ==
    IF trail.valid /\ trail.undone = 0
    THEN [trail EXCEPT !.snaps = Append(@, [points |-> pts, colors |-> cols])]
    ELSE NoTrail

\* trail after an undo
TrailUndo ==
    IF trail.valid /\ trail.undone < Len(trail.snaps)
    THEN [trail EXCEPT !.undone = @ + 1]
    ELSE NoTrail

\* the record of one operation: its name, return value, arguments, the redraws
\* it performed, the dialogs it showed, the file it opened and what it wrote
Event(name, ret, arg, draws, notes, opened, out) ==
    [name |-> name, ret |-> ret, arg |-> arg, draws |-> draws, notes |-> notes,
     opened |-> opened, out |-> out]

----------------------------------------------------------------------------
(* PointCloud3D: the effect of each method on the store *)

\* add_square(x, y, size, pts, color)
AddSquareEff(x, y, size, pts, color) ==
    LET pts3 == SquarePoints(x, y, size, pts)
        cols == SquareColors(color, Len(pts3))
    IN  /\ undo_stack' = Append(undo_stack, NewBatch(points, pts3))
        /\ points' = AppendBuf(points, pts3)
        /\ colors' = AppendBuf(colors, cols)

\* undo(), when undo_stack is not empty
UndoEff ==
    LET batch == undo_stack[Len(undo_stack)]
    IN  /\ undo_stack' = SubSeq(undo_stack, 1, Len(undo_stack) - 1)
        /\ points' = UndoPoints(points, batch[1])
        /\ colors' = UndoColors(colors, batch[1])

\* clear(), when the buffer is not empty
ClearEff ==
    /\ undo_stack' = Append(undo_stack, ClearBatch(points))
    /\ points' = << >>
    /\ colors' = << >>

\* build_3d_layers(): the store after the call
LayersEff ==
    IF IsEmpty(points)
    THEN UNCHANGED storeVars
    ELSE /\ points' = StoredAfterLayers(points, LayerCount(export_layer_count),
                                        LayerStep(export_layer_height))
         /\ UNCHANGED <<colors, undo_stack>>

\* what save_ply / save_pcd write: the format and the vertex count of the header
Written(fmt, geom) == [fmt |-> fmt, n |-> Len(geom.pts), ncols |-> Len(geom.cols)]

----------------------------------------------------------------------------
(* PointCloud3D called directly *)

appUnchanged == <<points_per_cloud, cloud_size, map_width, map_height, map_dpi,
                  redraw_scheduled, timers, scatter_obj, mouse_down, last_pos, win>>

add_square(x, y, size, pts, color) ==
    /\ Len(undo_stack) < MaxStack
    /\ AddSquareEff(x, y, size, pts, color)
    /\ last' = Event("add_square", Len(points') - Len(points), <<x, y, size, pts, color>>,
                     << >>, << >>, None, None)
    /\ undoBase' = [by |-> "add_square", points |-> points, colors |-> colors,
                    stack |-> undo_stack]
    /\ trail' = TrailAppend(points', colors')
    /\ UNCHANGED <<exportVars, files, appUnchanged>>

undo ==
    /\ IF undo_stack = << >>
       THEN /\ UNCHANGED storeVars
            /\ last' = Event("undo", FALSE, << >>, << >>, << >>, None, None)
       ELSE /\ UndoEff
            /\ last' = Event("undo", TRUE, << >>, << >>, << >>, None, None)
    /\ undoBase' = IF last.name \in {"add_square", "clear"} THEN undoBase ELSE NoBase
    /\ trail' = TrailUndo
    /\ UNCHANGED <<exportVars, files, appUnchanged>>

clear ==
    /\ Len(undo_stack) < MaxStack
    /\ IF IsEmpty(points)
       THEN /\ UNCHANGED storeVars
            /\ last' = Event("clear", FALSE, << >>, << >>, << >>, None, None)
            /\ undoBase' = NoBase
       ELSE /\ ClearEff
            /\ last' = Event("clear", TRUE, << >>, << >>, << >>, None, None)
            /\ undoBase' = [by |-> "clear", points |-> points, colors |-> colors,
                                stack |-> undo_stack]
    /\ trail' = NoTrail
    /\ UNCHANGED <<exportVars, files, appUnchanged>>

build_3d_layers ==
    /\ LayersEff
    /\ last' = Event("build_3d_layers",
                     build_3d_layers_result(points, colors, export_layer_count,
                                            export_layer_height),
                     << >>, << >>, << >>, None, None)
    /\ undoBase' = NoBase
    /\ UNCHANGED <<exportVars, files, trail, appUnchanged>>

\* save_ply(filename) and save_pcd(filename) differ in what they write only
SaveEff(fmt, filename) ==
    LET geom == build_3d_layers_result(points, colors, export_layer_count,
                                       export_layer_height)
    IN  /\ LayersEff
        /\ IF geom.none
           THEN /\ files' = files
                /\ last' = Event("save_" \o fmt, FALSE, <<filename>>, << >>, << >>, None, None)
           ELSE /\ files' = files \cup {filename}
                /\ last' = Event("save_" \o fmt, TRUE, <<filename>>, << >>, << >>,
                                 filename, Written(fmt, geom))

save_ply(filename) ==
    /\ SaveEff("ply", filename)
    /\ undoBase' = NoBase
    /\ UNCHANGED <<exportVars, trail, appUnchanged>>

save_pcd(filename) ==
    /\ SaveEff("pcd", filename)
    /\ undoBase' = NoBase
    /\ UNCHANGED <<exportVars, trail, appUnchanged>>

----------------------------------------------------------------------------
(* PointCloudApp: the pure parts of each handler *)

\* update_view: MAX_DISPLAY
MAX_DISPLAY == 30000

\* mouse_move: the squared-distance threshold 0.0005 m^2, in square units
MoveThreshold == 3380

RECURSIVE Pow2(_)
\* 2^n
Pow2(n) == IF n = 0 THEN 1 ELSE 2 * Pow2(n - 1)

RECURSIVE Pow2Mod(_, _)
\* 2^n mod b
Pow2Mod(n, b) == IF n = 0 THEN 1 % b ELSE (2 * Pow2Mod(n - 1, b)) % b

RECURSIVE Pow2Ceil(_)
\* the least power of two that is at least n
Pow2Ceil(n) == IF n <= 1 THEN 1 ELSE 2 * Pow2Ceil((n + 1) \div 2)

RECURSIVE Log2Quot(_, _)
\* the binary exponent of the quotient a / b >= 1: the largest e with b * 2^e <= a
Log2Quot(a, b) == IF 2 * b <= a THEN 1 + Log2Quot(a, 2 * b) ELSE 0

\* np.linspace(0, total-1, cap).astype(int)[k], k from 0. numpy computes
\* step = (total-1)/(cap-1) as a double (53-bit significand, round to nearest),
\* sample k as the double product k * step, stores total-1 in the last sample,
\* and astype(int) truncates. With a = total-1, b = cap-1 and n = floor(k*a/b):
\* when b does not divide k*a the exact quotient is at least 1/b away from an
\* integer and the rounding (below 2^-36 here) cannot change the truncation.
\* When b divides k*a the exact quotient is the integer n; step is
\* a/b - r/(b * 2^(52-e)) with r = (a * 2^(52-e)) mod b taken in (-b/2, b/2), so
\* if step was rounded down (r > 0) the product is n - k*r/(b * 2^(52-e)),
\* which rounds back to n only when it is within half a unit in the last place
\* of n, and is truncated to n - 1 otherwise.
LinspaceInt(total, cap, k) ==
    LET a == total - 1
        b == cap - 1
    IN  IF cap = 1 THEN 0
        ELSE IF k = cap - 1 THEN a
        ELSE IF k = 0 \/ (k * a) % b # 0 THEN (k * a) \div b
        ELSE LET n == (k * a) \div b
                 e == Log2Quot(a, b)
                 r == ((a % b) * Pow2Mod(52 - e, b)) % b
             IN  IF r = 0 \/ 2 * r > b THEN n
                 ELSE IF 4 * k * r * Pow2(e) > b * Pow2Ceil(n) THEN n - 1 ELSE n

\* update_view showing the first cap points of a store above the cap
DispIdxAtPrefix(total, cap, k) == k - 1

\* update_view: the 0-based indices displayed, all of them up to the cap and
\* np.linspace(0, total-1, cap).astype(int) beyond it
DispIdxAt(total, cap, k) ==
    IF total <= cap THEN k - 1 ELSE LinspaceInt(total, cap, k - 1)

\* update_view: how many points are displayed
DispCount(total, cap) == IF total <= cap THEN total ELSE cap

DispIdx(total, cap) == [k \in 1 .. DispCount(total, cap) |-> DispIdxAt(total, cap, k)]

\* update_view(initial): what the renderer is given, for the buffers pts, cols
DrawEvent(pts, cols, initial, had, w, h) ==
    LET total  == Len(pts)
        n      == DispCount(total, MAX_DISPLAY)
        idx(k) == DispIdxAt(total, MAX_DISPLAY, k)
    IN  IF total = 0
        THEN [total |-> 0, idx |-> << >>, offsets |-> << >>, facecolors |-> << >>,
              artist |-> IF had = None THEN "none" ELSE "remove",
              xlim |-> w, ylim |-> h, flush |-> "draw_idle"]
        ELSE [total |-> total, idx |-> DispIdx(total, MAX_DISPLAY),
              offsets |-> [k \in 1 .. n |-> <<pts[idx(k) + 1][1], pts[idx(k) + 1][2]>>],
              facecolors |-> [k \in 1 .. n |-> cols[idx(k) + 1]],
              artist |-> IF had = None THEN "scatter" ELSE "set_offsets",
              xlim |-> w, ylim |-> h,
              flush |-> IF initial THEN "draw" ELSE "draw_idle"]

\* update_view: scatter_obj afterwards
ScatterAfter(pts) == IF Len(pts) = 0 THEN None ELSE "scatter"

\* update_settings: map_dpi = max(30, min(800, int(dpi)))
ClampDpi(d) == Max2(30, Min2(800, d))

\* ShouldSchedule without the redraw_scheduled test
ShouldScheduleAlways(flag) == TRUE

\* ShouldSchedule with the test inverted: nothing is scheduled while none is pending
ShouldScheduleInverted(flag) == flag

\* add_cloud_quick: a callback is scheduled only when none is pending
ShouldSchedule(flag) == ~flag

\* an ignored pointer event ending the drag
IgnoredEndsDrag ==
    /\ mouse_down' = FALSE
    /\ last_pos' = NoXY
    /\ UNCHANGED <<storeVars, timerVars, win>>

\* mouse_press, mouse_move: the handler returns without doing anything when its
\* test fails
Ignored == UNCHANGED <<storeVars, mouseVars, timerVars, win>>

\* mouse_move ignoring only samples without coordinates, whatever the drag state
MoveIgnoredNoState(down, xy) == xy = NoXY

\* mouse_move: "if not self.mouse_down or event.xdata is None: return"
MoveIgnored(down, xy) == ~down \/ xy = NoXY

\* mouse_press: "event.button == 1 and event.xdata is not None and event.ydata
\* is not None"
IsPrimaryPress(button, xy) == button = 1 /\ xy # NoXY

\* the callback leaving the flag as it found it
FlagAfterFireKept(flag) == flag

\* _perform_scheduled_redraw: self.redraw_scheduled = False
FlagAfterFire(flag) == FALSE

\* the threshold test of mouse_move with >= in place of >
MovedEnoughOrEqual(x, y, lx, ly) ==
    (x - lx) * (x - lx) + (y - ly) * (y - ly) >= MoveThreshold

\* the pointer sample of the event handled just before, when that was a pointer event
PrevSample ==
    IF last.name = "mouse_move" THEN last.arg[1]
    ELSE IF last.name = "mouse_press" THEN last.arg[2]
    ELSE NoXY

\* mouse_move: (x-lx)**2 + (y-ly)**2 > 0.0005
MovedEnough(x, y, lx, ly) == (x - lx) * (x - lx) + (y - ly) * (y - ly) > MoveThreshold

\* the cap on what the controller appends
CanAppend ==
    /\ win.n < MaxWindow
    /\ Len(undo_stack) < MaxClouds
    /\ Len(points) + SquareSide(points_per_cloud) * SquareSide(points_per_cloud) <= MaxPoints

\* win after an add_cloud_quick call
WinAppend ==
    IF timers = 0
    THEN [n |-> 1, sched |-> timers' - timers, base |-> Len(points),
          added |-> Len(points') - Len(points), pure |-> TRUE]
    ELSE [win EXCEPT !.n = @ + 1, !.sched = @ + (timers' - timers),
                     !.added = @ + (Len(points') - Len(points))]

\* win after another operation changed the buffers
WinTouched == IF win.n > 0 THEN [win EXCEPT !.pure = FALSE] ELSE win

\* add_cloud_quick(x, y)
AddCloudQuickEff(x, y) ==
    /\ AddSquareEff(x, y, cloud_size, points_per_cloud, DefaultColor)
    /\ IF ShouldSchedule(redraw_scheduled)
       THEN /\ redraw_scheduled' = TRUE
            /\ timers' = timers + 1
       ELSE UNCHANGED timerVars
    /\ win' = WinAppend

----------------------------------------------------------------------------
(* PointCloudApp: the handlers *)

\* update_view(initial), run on the buffers the handler leaves
UpdateView(initial) ==
    /\ scatter_obj' = ScatterAfter(points')

\* the redraw update_view(initial) performs, as recorded in last.draws
Drawn(initial) ==
    DrawEvent(points', colors', initial, scatter_obj, map_width', map_height')

Note(kind, title) == [kind |-> kind, title |-> title]

\* clear going ahead whatever the prompt answered
ConfirmedAnyway(answer) == TRUE

\* clear: "if messagebox.askyesno("Confirm", "Clear all points?")"
Confirmed(answer) == answer

\* undo and clear redrawing whatever the store returned
AfterStoreAlways(ok) == <<Drawn(FALSE)>>

\* undo, clear: "if self.pc.undo(): self.update_view()", the redraws performed
\* once the store method has returned ok
AfterStore(ok) == IF ok THEN <<Drawn(FALSE)>> ELSE << >>

update_settings(pv, sv, wv, hv, dv, ehv, ecv) ==
    /\ points_per_cloud' = Max2(1, pv)
    /\ cloud_size' = sv
    /\ map_width' = wv
    /\ map_height' = hv
    /\ map_dpi' = ClampDpi(dv)
    /\ export_layer_height' = Abs(ehv)
    /\ export_layer_count' = Max2(1, ecv)
    /\ UNCHANGED storeVars
    /\ UpdateView(FALSE)
    /\ last' = Event("update_settings", None, <<pv, sv, wv, hv, dv, ehv, ecv>>,
                     <<Drawn(FALSE)>>, <<Note("showinfo", "Settings")>>, None, None)
    /\ undoBase' = NoBase
    /\ UNCHANGED <<timerVars, mouseVars, files, trail, win>>

mouse_press(button, xy) ==
    /\ IF IsPrimaryPress(button, xy)
       THEN /\ CanAppend
            /\ mouse_down' = TRUE
            /\ last_pos' = xy
            /\ AddCloudQuickEff(xy[1], xy[2])
            /\ last' = Event("mouse_press", Len(points') - Len(points),
                             <<button, xy>>, << >>, << >>, None, None)
       ELSE /\ Ignored
            /\ last' = Event("mouse_press", 0, <<button, xy>>,
                             << >>, << >>, None, None)
    /\ undoBase' = NoBase
    /\ trail' = NoTrail
    /\ UNCHANGED <<exportVars, settingVars, scatter_obj, files>>

mouse_release ==
    /\ mouse_down' = FALSE
    /\ last_pos' = NoXY
    /\ last' = Event("mouse_release", None, << >>, << >>, << >>, None, None)
    /\ undoBase' = NoBase
    /\ trail' = NoTrail
    /\ UNCHANGED <<storeVars, exportVars, settingVars, timerVars, scatter_obj, files, win>>

mouse_move(xy) ==
    /\ IF MoveIgnored(mouse_down, xy)
       THEN /\ Ignored
            /\ last' = Event("mouse_move", 0, <<xy, PrevSample, last_pos>>,
                             << >>, << >>, None, None)
       ELSE IF last_pos = NoXY
       THEN /\ last_pos' = xy
            /\ UNCHANGED <<storeVars, mouse_down, timerVars, win>>
            /\ last' = Event("mouse_move", 0, <<xy, PrevSample, last_pos>>,
                             << >>, << >>, None, None)
       ELSE IF MovedEnough(xy[1], xy[2], last_pos[1], last_pos[2])
       THEN /\ CanAppend
            /\ last_pos' = xy
            /\ AddCloudQuickEff(xy[1], xy[2])
            /\ UNCHANGED mouse_down
            /\ last' = Event("mouse_move", Len(points') - Len(points),
                             <<xy, PrevSample, last_pos>>, << >>, << >>, None, None)
       ELSE /\ UNCHANGED <<storeVars, mouseVars, timerVars, win>>
            /\ last' = Event("mouse_move", 0, <<xy, PrevSample, last_pos>>,
                             << >>, << >>, None, None)
    /\ undoBase' = NoBase
    /\ trail' = NoTrail
    /\ UNCHANGED <<exportVars, settingVars, scatter_obj, files>>

\* _perform_scheduled_redraw, run by the event loop when an after() callback is due
perform_scheduled_redraw ==
    /\ UNCHANGED <<exportVars, settingVars, mouseVars, files>>
    /\ timers > 0
    /\ timers' = timers - 1
    /\ redraw_scheduled' = FlagAfterFire(redraw_scheduled)
    /\ UNCHANGED storeVars
    /\ UpdateView(FALSE)
    /\ last' = Event("perform_scheduled_redraw", None, win, <<Drawn(FALSE)>>, << >>,
                     None, None)
    /\ win' = NoWin
    /\ undoBase' = NoBase
    /\ trail' = NoTrail

\* PointCloudApp.undo
app_undo ==
    /\ UNCHANGED <<exportVars, settingVars, timerVars, mouseVars, files>>
    /\ IF undo_stack = << >>
       THEN /\ UNCHANGED <<storeVars, scatter_obj, win>>
            /\ last' = Event("app_undo", FALSE, << >>, AfterStore(FALSE), << >>, None, None)
       ELSE /\ UndoEff
            /\ UpdateView(FALSE)
            /\ win' = WinTouched
            /\ last' = Event("app_undo", TRUE, << >>, AfterStore(TRUE), << >>, None, None)
    /\ undoBase' = NoBase
    /\ trail' = NoTrail

\* PointCloudApp.clear, the user answering the confirmation with answer
app_clear(answer) ==
    /\ UNCHANGED <<exportVars, settingVars, timerVars, mouseVars, files>>
    /\ Len(undo_stack) < MaxStack
    /\ IF Confirmed(answer) /\ ~IsEmpty(points)
       THEN /\ ClearEff
            /\ UpdateView(FALSE)
            /\ win' = WinTouched
            /\ last' = Event("app_clear", TRUE, <<answer>>, AfterStore(TRUE),
                             <<Note("askyesno", "Confirm")>>, None, None)
       ELSE /\ UNCHANGED <<storeVars, scatter_obj, win>>
            /\ last' = Event("app_clear", FALSE, <<answer>>, AfterStore(FALSE),
                             <<Note("askyesno", "Confirm")>>, None, None)
    /\ undoBase' = NoBase
    /\ trail' = NoTrail

\* PointCloudApp.save(fmt), the file dialog answering path ("" when cancelled)
app_save(fmt, path) ==
    /\ IF IsEmpty(points)
       THEN /\ UNCHANGED <<storeVars, files>>
            /\ last' = Event("app_save", FALSE, <<fmt>>, << >>,
                             <<Note("showerror", "Error")>>, None, None)
       ELSE IF path = ""
       THEN /\ UNCHANGED <<storeVars, files>>
            /\ last' = Event("app_save", FALSE, <<fmt, path>>, << >>, << >>, None, None)
       ELSE /\ LayersEff
            /\ files' = files \cup {path}
            /\ last' = Event("app_save", TRUE, <<fmt, path>>, << >>,
                             <<Note("showinfo", "Saved")>>, path,
                             Written(fmt, build_3d_layers_result(points, colors,
                                              export_layer_count, export_layer_height)))
    /\ undoBase' = NoBase
    /\ trail' = NoTrail
    /\ UNCHANGED <<exportVars, settingVars, timerVars, mouseVars, scatter_obj, win>>

\* the Refresh button: update_view()
refresh ==
    /\ UNCHANGED <<exportVars, settingVars, timerVars, mouseVars, files, win>>
    /\ UNCHANGED storeVars
    /\ UpdateView(FALSE)
    /\ last' = Event("refresh", None, << >>, <<Drawn(FALSE)>>, << >>, None, None)
    /\ undoBase' = NoBase
    /\ trail' = NoTrail

----------------------------------------------------------------------------
(* Specifications *)

\* PointCloudApp.__init__: the empty store, the default settings, and the first
\* update_view(initial=True), which finds no points
Init ==
    /\ points = << >>
    /\ colors = << >>
    /\ undo_stack = << >>
    /\ export_layer_height = InitLayerHeight
    /\ export_layer_count = InitLayerCount
    /\ points_per_cloud = InitPointsPerCloud
    /\ cloud_size = InitCloudSize
    /\ map_width = InitMapWidth
    /\ map_height = InitMapHeight
    /\ map_dpi = InitMapDpi
    /\ redraw_scheduled = FALSE
    /\ timers = 0
    /\ scatter_obj = None
    /\ mouse_down = FALSE
    /\ last_pos = NoXY
    /\ files = {}
    /\ last = Event("init", None, << >>,
                    <<DrawEvent(<< >>, << >>, TRUE, None, InitMapWidth, InitMapHeight)>>,
                    << >>, None, None)
    /\ undoBase = NoBase
    /\ trail = [valid |-> TRUE, snaps |-> << >>, undone |-> 0]
    /\ win = NoWin

\* the store driven through its own methods, the export settings through the form
Next ==
    \/ \E a \in CloudArgs, t \in Targets : add_square(a[1], a[2], a[3], t, a[4])
    \/ undo
    \/ clear
    \/ build_3d_layers
    \/ \E f \in Paths : save_ply(f)
    \/ \E f \in Paths : save_pcd(f)
    \/ \E e \in ExportInputs :
           update_settings(points_per_cloud, cloud_size, map_width, map_height, map_dpi,
                           e[1], e[2])

Spec == Init /\ [][Next]_vars

\* the application driven by its user and its event loop
NextApp ==
    \/ \E b \in Buttons, xy \in PressXY \cup {NoXY} : mouse_press(b, xy)
    \/ mouse_release
    \/ \E xy \in MoveXY \cup {NoXY} : mouse_move(xy)
    \/ perform_scheduled_redraw
    \/ app_undo
    \/ \E answer \in BOOLEAN : app_clear(answer)
    \/ \E fmt \in {"ply", "pcd"}, path \in PathInputs : app_save(fmt, path)
    \/ refresh
    \/ \E pv \in PointInputs :
           update_settings(pv, cloud_size, map_width, map_height, map_dpi,
                           export_layer_height, export_layer_count)

SpecApp == Init /\ [][NextApp]_vars

\* the inputs of a render query: <<number of stored points, display cap>>
QueryInputs ==
    {<<t, c>> : t \in 0 .. MaxTotal, c \in 2 .. MaxCap}
        \cup {<<MAX_DISPLAY + 1, MAX_DISPLAY>>, <<MAX_DISPLAY + 131, MAX_DISPLAY>>}

\* a controller about to redraw a store of q[1] points with display cap q[2]
InitQuery ==
    /\ points = << >>
    /\ colors = << >>
    /\ undo_stack = << >>
    /\ export_layer_height = InitLayerHeight
    /\ export_layer_count = InitLayerCount
    /\ points_per_cloud = InitPointsPerCloud
    /\ cloud_size = InitCloudSize
    /\ map_width = InitMapWidth
    /\ map_height = InitMapHeight
    /\ map_dpi = InitMapDpi
    /\ redraw_scheduled = FALSE
    /\ timers = 0
    /\ scatter_obj = None
    /\ mouse_down = FALSE
    /\ last_pos = NoXY
    /\ files = {}
    /\ \E q \in QueryInputs :
           last = Event("query", None, <<q[1], q[2], 0>>, << >>, << >>, None, None)
    /\ undoBase = NoBase
    /\ trail = NoTrail
    /\ win = NoWin

\* update_view computing the next element of disp_idx
render_index ==
    LET total == last.arg[1]
        cap   == last.arg[2]
        k     == last.arg[3]
    IN  /\ k < DispCount(total, cap)
        /\ last' = Event("render_index", DispIdxAt(total, cap, k + 1),
                         <<total, cap, k + 1>>, << >>, << >>, None, None)
        /\ UNCHANGED <<storeVars, exportVars, settingVars, mouseVars, timerVars,
                       scatter_obj, files, undoBase, trail, win>>

NextQuery == render_index

SpecQuery == InitQuery /\ [][NextQuery]_vars

\* the application under an event loop that runs every after() callback that is
\* due: Tk's mainloop fires a scheduled callback once its delay has passed
\* every handler of the application, each with the inputs on which it acts
NextAppFair ==
    \/ \E xy \in PressXY : mouse_press(1, xy)
    \/ mouse_release
    \/ \E xy \in MoveXY : mouse_move(xy)
    \/ perform_scheduled_redraw
    \/ app_undo
    \/ app_clear(TRUE)
    \/ \E path \in Paths : app_save("ply", path)
    \/ refresh
    \/ \E pv \in PointInputs :
           update_settings(pv, cloud_size, map_width, map_height, map_dpi,
                           export_layer_height, export_layer_count)

SpecAppFair == Init /\ [][NextAppFair]_vars /\ WF_vars(perform_scheduled_redraw)

----------------------------------------------------------------------------
(* Properties of the store *)

\* the buffers after the first m appends of the run recorded in trail
TrailAt(m) ==
    IF m = 0 THEN [points |-> << >>, colors |-> << >>] ELSE trail.snaps[m]

\* C1: an undo that immediately follows an add_square returns true and leaves
\* points and colors as they were before that add_square; and after k appends
\* on a fresh store, j <= k undos in a row leave points and colors as they were
\* after the first k - j appends.
C1_UndoRestoresAppend ==
    /\ (last.name = "undo" /\ undoBase.by = "add_square") =>
           /\ last.ret = TRUE
           /\ points = undoBase.points
           /\ colors = undoBase.colors
    /\ (trail.valid /\ trail.undone > 0) =>
           /\ points = TrailAt(Len(trail.snaps) - trail.undone).points
           /\ colors = TrailAt(Len(trail.snaps) - trail.undone).colors

\* three appends on a fresh store, then an undo
C1_Witness ==
    /\ last.name = "undo"
    /\ undoBase.by = "add_square"
    /\ trail.valid
    /\ Len(trail.snaps) >= 3
    /\ trail.undone = 1
    /\ Len(points) > 1

\* C2: an undo that immediately follows a clear of a non-empty buffer leaves
\* points and colors as they were before the clear.
C2_UndoRestoresClear ==
    (last.name = "undo" /\ undoBase.by = "clear") =>
        /\ points = undoBase.points
        /\ colors = undoBase.colors

\* C3: after every add_square, undo and clear, points and colors have the same length.
C3_SameLength == Len(points) = Len(colors)

\* an undo that left points behind, with a batch still on the stack
C3_Witness ==
    /\ last.name = "undo"
    /\ last.ret = TRUE
    /\ Len(points) > 1
    /\ Len(undo_stack) > 0

\* C4: undo with an empty undo_stack, clear with an empty buffer and save_ply /
\* save_pcd with an empty buffer return false and change neither points, colors
\* nor undo_stack; the two exports then open no file.
C4_NothingToActOn ==
    [][ /\ (last'.name = "undo" /\ Len(undo_stack) = 0) =>
               (last'.ret = FALSE /\ UNCHANGED storeVars)
        /\ (last'.name = "clear" /\ Len(points) = 0) =>
               (last'.ret = FALSE /\ UNCHANGED storeVars)
        /\ (last'.name \in {"save_ply", "save_pcd"} /\ Len(points) = 0) =>
               /\ last'.ret = FALSE
               /\ UNCHANGED storeVars
               /\ files' = files
               /\ last'.opened = None ]_vars

\* an export refused on a buffer that a clear emptied
C4_Witness ==
    /\ last.name = "save_pcd"
    /\ last.ret = FALSE
    /\ Len(points) = 0
    /\ Len(undo_stack) > 0
    /\ files = {}

\* the largest perfect square that is <= m, for m >= 1
LargestSquare(m) ==
    CHOOSE q \in 1 .. m :
        /\ \E r \in 1 .. m : q = r * r
        /\ \A r \in 1 .. m : r * r <= m => r * r <= q

\* C5: add_square with any integer target appends and returns the largest
\* perfect square <= max(1, target) points, pushes exactly the batch (old
\* length, count) and keeps the old points and colors as a prefix.
C5_AppendCount ==
    last.name = "add_square" =>
        /\ last.ret = LargestSquare(Max2(1, last.arg[4]))
        /\ Len(points) = Len(undoBase.points) + last.ret
        /\ Len(colors) = Len(undoBase.colors) + last.ret
        /\ SubSeq(points, 1, Len(undoBase.points)) = undoBase.points
        /\ SubSeq(colors, 1, Len(undoBase.colors)) = undoBase.colors
        /\ undo_stack = Append(undoBase.stack, <<Len(undoBase.points), last.ret>>)

\* a target below 1 appended to a buffer that already holds points
C5_Witness ==
    /\ last.name = "add_square"
    /\ last.arg[4] < 1
    /\ last.ret = 1
    /\ Len(undoBase.points) > 1

\* C6: add_square with a target of 1 appends exactly one point, at (x, y, 0).
C6_SinglePointAtCentre ==
    (last.name = "add_square" /\ last.arg[4] = 1) =>
        /\ last.ret = 1
        /\ points[Len(points)] = <<last.arg[1], last.arg[2], 0>>

\* C7: for a store of M >= 1 points, build_3d_layers returns M * L points and
\* M * L colors in L consecutive layers, layer i being the stored points with z
\* raised by i * H and x, y unchanged (L = export_layer_count, H = export_layer_height).
C7_Layers ==
    (last.name = "build_3d_layers" /\ Len(points) >= 1) =>
        LET M == Len(points)
            L == export_layer_count
            H == export_layer_height
        IN  /\ ~last.ret.none
            /\ Len(last.ret.pts) = M * L
            /\ Len(last.ret.cols) = M * L
            /\ \A i \in 0 .. L - 1 : \A k \in 1 .. M :
                   last.ret.pts[i * M + k] =
                       <<points[k][1], points[k][2], points[k][3] + i * H>>

\* several points built into several layers a positive height apart
C7_Witness ==
    /\ last.name = "build_3d_layers"
    /\ Len(points) >= 2
    /\ export_layer_count >= 2
    /\ export_layer_height > 0
    /\ Len(last.ret.pts) = Len(points) * export_layer_count

\* 255 * c / 1000 rounded to the nearest integer (c in thousandths; a half rounds
\* to the even neighbour, as Python's round does)
Round255(c) ==
    LET q == (c * 255) \div 1000
        r == (c * 255) % 1000
    IN  IF r > 500 \/ (r = 500 /\ q % 2 = 1) THEN q + 1 ELSE q

\* C8: every channel build_3d_layers returns is the stored channel scaled to
\* [0, 255] and rounded to the nearest integer, and every layer's colors are
\* those of layer 0.
C8_ColorsRounded ==
    (last.name = "build_3d_layers" /\ Len(points) >= 1) =>
        LET M == Len(colors)
        IN  \A k \in 1 .. Len(last.ret.cols) :
                /\ last.ret.cols[k] = last.ret.cols[((k - 1) % M) + 1]
                /\ \A ch \in 1 .. 3 :
                       last.ret.cols[k][ch] = Round255(colors[((k - 1) % M) + 1][ch])

\* C9: every stored point has z = 0, and build_3d_layers, save_ply and save_pcd
\* change none of points, colors, undo_stack and the export settings.
C9_FlatAndUntouched ==
    /\ [](\A k \in 1 .. Len(points) : points[k][3] = 0)
    /\ [][ last'.name \in {"build_3d_layers", "save_ply", "save_pcd"} =>
               UNCHANGED <<points, colors, undo_stack,
                           export_layer_height, export_layer_count>> ]_vars

\* a file written from several points in several layers
C9_Witness ==
    /\ last.name = "save_ply"
    /\ last.ret = TRUE
    /\ Len(points) > 1
    /\ export_layer_count > 1
    /\ export_layer_height > 0
    /\ "out" \in files

----------------------------------------------------------------------------
(* Properties of the controller *)

\* C10: the appends made while a callback is outstanding schedule exactly one
\* callback between them; when it fires it performs exactly one redraw, of a
\* store holding every one of those appends; the next append schedules exactly
\* one callback again.
C10_Debounce ==
    /\ win.n >= 1 => (timers = 1 /\ win.sched = 1 /\ redraw_scheduled)
    /\ (last.name = "perform_scheduled_redraw" /\ last.arg.n >= 1) =>
           /\ Len(last.draws) = 1
           /\ timers = 0
           /\ ~redraw_scheduled
           /\ last.arg.pure =>
                  /\ Len(points) = last.arg.base + last.arg.added
                  /\ last.draws[1].total = last.arg.base + last.arg.added

\* the callback fires after at least two appends were made in its window
C10_Witness ==
    /\ last.name = "perform_scheduled_redraw"
    /\ last.arg.n >= 2
    /\ last.arg.pure
    /\ last.draws[1].total >= 2

\* the handler just run appended a cloud through add_cloud_quick
AppendedJust == last.name \in {"mouse_press", "mouse_move"} /\ last.ret > 0

\* the handler just run performed a redraw
RedrawnJust == Len(last.draws) > 0

\* the redraw d shows the buffers as they are now (all of them, up to the cap)
ShowsCurrent(d) ==
    /\ d.total = Len(points)
    /\ Len(d.offsets) = DispCount(Len(points), MAX_DISPLAY)
    /\ Len(d.facecolors) = Len(d.offsets)
    /\ \A k \in 1 .. Len(d.offsets) :
           /\ d.offsets[k] = <<points[d.idx[k] + 1][1], points[d.idx[k] + 1][2]>>
           /\ d.facecolors[k] = colors[d.idx[k] + 1]

\* C11: when every scheduled callback eventually fires, every append made by a
\* press or a drag is followed by a later redraw, and every redraw shows the
\* store as it is when the redraw runs.
C11_NoAppendLost ==
    /\ AppendedJust ~> RedrawnJust
    /\ [](\A i \in 1 .. Len(last.draws) : ShowsCurrent(last.draws[i]))

\* the callback redraws a store that an append and then an undo have changed
C11_Witness ==
    /\ last.name = "perform_scheduled_redraw"
    /\ last.arg.n >= 1
    /\ ~last.arg.pure
    /\ Len(last.draws) = 1
    /\ last.draws[1].total = Len(points)

\* squared distance between two positions
Dist2(p, q) == (p[1] - q[1]) * (p[1] - q[1]) + (p[2] - q[2]) * (p[2] - q[2])

\* C12: while dragging with a recorded position, a move whose squared distance
\* from the recorded position is at most 0.0005 appends nothing and keeps the
\* recorded position; a move further away appends exactly one cloud at the new
\* position and records it. The distance is taken from the recorded position.
C12_DragThreshold ==
    [][(/\ last'.name = "mouse_move"
        /\ mouse_down
        /\ last_pos # NoXY
        /\ last'.arg[1] # NoXY) =>
           LET xy == last'.arg[1] IN
           IF Dist2(xy, last_pos) <= MoveThreshold
           THEN /\ points' = points
                /\ colors' = colors
                /\ undo_stack' = undo_stack
                /\ last_pos' = last_pos
           ELSE /\ points' = points \o SquarePoints(xy[1], xy[2], cloud_size,
                                                    points_per_cloud)
                /\ Len(colors') = Len(points')
                /\ undo_stack' = Append(undo_stack, <<Len(points), Len(points') - Len(points)>>)
                /\ last_pos' = xy]_vars

\* a move appended a cloud although it is within the threshold of the sample
\* before it: that sample had been ignored, at exactly the threshold distance
C12_Witness ==
    /\ last.name = "mouse_move"
    /\ last.ret > 0
    /\ last.arg[2] # NoXY
    /\ last.arg[3] # NoXY
    /\ last.arg[2] # last.arg[3]
    /\ Dist2(last.arg[2], last.arg[3]) = MoveThreshold
    /\ Dist2(last.arg[1], last.arg[2]) <= MoveThreshold
    /\ Dist2(last.arg[1], last.arg[3]) > MoveThreshold
    /\ last_pos = last.arg[1]

C14_ClearConfirmed ==
    [][last'.name = "app_clear" =>
           /\ Len(last'.notes) = 1
           /\ last'.notes[1].kind = "askyesno"
           /\ (points' # points \/ undo_stack' # undo_stack) => last'.arg[1] = TRUE
           /\ last'.arg[1] = FALSE =>
                  /\ points' = points
                  /\ colors' = colors
                  /\ undo_stack' = undo_stack
                  /\ Len(last'.draws) = 0
                  /\ scatter_obj' = scatter_obj
                  /\ timers' = timers]_vars

\* the prompt was answered no while the store held points
C14_Witness ==
    /\ last.name = "app_clear"
    /\ last.arg[1] = FALSE
    /\ Len(points) > 0
    /\ Len(undo_stack) > 0
    /\ last.ret = FALSE

\* C15: a redraw of T points under display cap C is given all T points in order
\* when T <= C, and when T > C exactly C points, the k-th (from 0) being the one
\* at index floor(k*(T-1)/(C-1)): strictly increasing, from 0 to T-1; the store
\* is left as it was.
C15_RenderQuery ==
    last.name = "render_index" =>
        LET total == last.arg[1]
            cap   == last.arg[2]
            k     == last.arg[3]
            idx   == last.ret
        IN  /\ total <= cap => (k <= total /\ idx = k - 1)
            /\ total > cap =>
                   /\ k <= cap
                   /\ idx = ((k - 1) * (total - 1)) \div (cap - 1)
                   /\ k = 1 => idx = 0
                   /\ k = cap => idx = total - 1
                   /\ k > 1 => idx > DispIdxAt(total, cap, k - 1)
            /\ points = << >> /\ colors = << >> /\ undo_stack = << >>

\* C15, amended: as C15, except that above the cap the k-th index is
\* floor(k*(T-1)/(C-1)) or, only where (C-1) divides k*(T-1), one less than it
\* (the double product k * step truncated); the sequence is still strictly
\* increasing, has exactly C elements, starts at 0 and ends at T-1.
C15_RenderQueryRounded ==
    last.name = "render_index" =>
        LET total == last.arg[1]
            cap   == last.arg[2]
            k     == last.arg[3]
            idx   == last.ret
            exact == ((k - 1) * (total - 1)) \div (cap - 1)
        IN  /\ total <= cap => (k <= total /\ idx = k - 1)
            /\ total > cap =>
                   /\ k <= cap
                   /\ idx \in {exact - 1, exact}
                   /\ idx # exact => ((k - 1) * (total - 1)) % (cap - 1) = 0
                   /\ k = 1 => idx = 0
                   /\ k = cap => idx = total - 1
                   /\ k > 1 => idx > DispIdxAt(total, cap, k - 1)
                   /\ idx \in 0 .. total - 1
            /\ points = << >> /\ colors = << >> /\ undo_stack = << >>

\* under the program's cap, an index one below the exact quotient was supplied
C15_Witness ==
    /\ last.name = "render_index"
    /\ last.arg[2] = MAX_DISPLAY
    /\ last.arg[1] > MAX_DISPLAY
    /\ last.arg[3] > 1
    /\ ((last.arg[3] - 1) * (last.arg[1] - 1)) % (MAX_DISPLAY - 1) = 0
    /\ last.ret = ((last.arg[3] - 1) * (last.arg[1] - 1)) \div (MAX_DISPLAY - 1) - 1

\* C16: in every reachable state at most one debounced-redraw callback is
\* outstanding, and redraw_scheduled is true exactly when one is.
C16_OnePending ==
    /\ timers \in {0, 1}
    /\ redraw_scheduled <=> (timers = 1)

\* a drag appended a second cloud while the callback of the first was still
\* outstanding, and no second callback was queued
C16_Witness ==
    /\ last.name = "mouse_move"
    /\ last.ret > 0
    /\ win.n = 2
    /\ win.sched = 1
    /\ timers = 1
    /\ redraw_scheduled

\* C17: a release ends the drag and clears the recorded position; while no drag
\* is on (from the start, and after a release) no move appends anything, and the
\* drag state stays off until a press of button 1 with coordinates, which starts
\* the drag, records the press position and appends exactly one cloud there.
C17_DragCycle ==
    /\ [](~mouse_down => last_pos = NoXY)
    /\ [][/\ last'.name = "mouse_release" =>
                 /\ ~mouse_down'
                 /\ last_pos' = NoXY
                 /\ UNCHANGED storeVars
          /\ (last'.name = "mouse_move" /\ ~mouse_down) =>
                 /\ UNCHANGED storeVars
                 /\ UNCHANGED timerVars
                 /\ ~mouse_down'
                 /\ last_pos' = NoXY
          /\ (~mouse_down /\ mouse_down') =>
                 /\ last'.name = "mouse_press"
                 /\ last'.arg[1] = 1
                 /\ last'.arg[2] # NoXY
          /\ (last'.name = "mouse_press" /\ last'.arg[1] = 1 /\ last'.arg[2] # NoXY) =>
                 LET xy == last'.arg[2] IN
                 /\ mouse_down'
                 /\ last_pos' = xy
                 /\ points' = points \o SquarePoints(xy[1], xy[2], cloud_size,
                                                     points_per_cloud)
                 /\ Len(colors') = Len(points')
                 /\ undo_stack' =
                        Append(undo_stack, <<Len(points), Len(points') - Len(points)>>)
         ]_vars

\* a move with coordinates arrived after a press and a release, and appended
\* nothing
C17_Witness ==
    /\ last.name = "mouse_move"
    /\ last.arg[1] # NoXY
    /\ last.ret = 0
    /\ ~mouse_down
    /\ last_pos = NoXY
    /\ Len(undo_stack) = 1
    /\ Len(points) > 0

\* C18: with or without a drag in progress, a press or a move that carries no
\* canvas coordinates appends nothing, schedules no redraw and leaves the drag
\* state, the recorded position, the buffers and undo_stack unchanged.
C18_NoCoordinatesIgnored ==
    [][(\/ last'.name = "mouse_press" /\ last'.arg[2] = NoXY
        \/ last'.name = "mouse_move" /\ last'.arg[1] = NoXY) =>
           /\ points' = points
           /\ colors' = colors
           /\ undo_stack' = undo_stack
           /\ mouse_down' = mouse_down
           /\ last_pos' = last_pos
           /\ redraw_scheduled' = redraw_scheduled
           /\ timers' = timers
           /\ scatter_obj' = scatter_obj
           /\ Len(last'.draws) = 0]_vars

\* during a drag, with no callback pending, a move without coordinates was
\* handled and the drag goes on from the recorded position
C18_Witness ==
    /\ last.name = "mouse_move"
    /\ last.arg[1] = NoXY
    /\ mouse_down
    /\ last_pos # NoXY
    /\ Len(points) > 0
    /\ timers = 0
    /\ ~redraw_scheduled

\* C19: in every reachable store state the start indices of the batches in
\* undo_stack are non-decreasing from the bottom of the stack to the top.
C19_StartsNonDecreasing ==
    \A i \in 1 .. Len(undo_stack) - 1 : undo_stack[i][1] <= undo_stack[i + 1][1]

\* C20: in every reachable store state an empty undo_stack means empty point and
\* colour buffers, and the bottom batch of a non-empty undo_stack starts at 0.
C20_EmptyStackEmptyStore ==
    /\ undo_stack = << >> => (Len(points) = 0 /\ Len(colors) = 0)
    /\ undo_stack # << >> => undo_stack[1][1] = 0

\* an undo found nothing to pop, in a store that had held points (they were
\* written to a file) and holds none now
C20_Witness ==
    /\ last.name = "undo"
    /\ last.ret = FALSE
    /\ undo_stack = << >>
    /\ Len(points) = 0
    /\ files # {}

====
